---- MODULE Spec2Model ----
(***************************************************************************)
(* A model of the phantasm client (src/phantasm.py): one client object,    *)
(* the platform's HTTP answers, and the operations of the client that poll *)
(* a resource or record identifiers.                                       *)
(*                                                                         *)
(* The client is single-threaded: at most one call is in progress.  A call *)
(* starts from pc = "idle" and ends at pc = "idle"; its outcome and its    *)
(* call-local counters stay readable until the next call starts.           *)
(*                                                                         *)
(* Reading of the source: `status is in [...]` (lines 236, 238) is read as *)
(* the membership test `status in [...]`, and `'running''` as 'running'.   *)
(* Everything else is modelled as written, including calls that raise.     *)
(***************************************************************************)
EXTENDS Integers, Sequences, FiniteSets, TLC

----------------------------------------------------------------------------
(* Bounds of the model *)

\* largest max_attempts a caller passes
MaxAttempts == 3

\* longest playbook-run history the model lets the client build
MaxHistory == 2

\* the poll intervals a caller passes
Intervals == {0, 1}

\* identifiers the platform hands out (0 is a legal, falsy identifier)
Ids == {0, 42}

\* playbook-run identifiers the platform hands out
RunIds == {7}

\* playbook names a caller passes
PlaybookNames == {"pb"}

----------------------------------------------------------------------------
(* Python values.  None is the empty tuple and a present value v is <<v>>, *)
(* so that `d.get(key)` of a missing key and of a JSON null agree.         *)

None == <<>>

Some(v) == <<v>>

\* the value json() gives for a body that is JSON null: it has no .get
PyNone == [type |-> "NoneType"]

\* bool(x) for the values of a `success` field
TruthySuccess(x) == x = Some(TRUE)

\* bool(x) for an integer field or an optional identifier argument
TruthyInt(x) == x # None /\ x[1] # 0

----------------------------------------------------------------------------
(* _wait's status vocabulary *)

\* line 236
TerminalStatuses == {"failed", "success", "new", "closed", "open"}

\* line 238
InProgressStatuses == {"pending", "running"}

\* status strings the platform may report: the known ones and a foreign one
Statuses == TerminalStatuses \cup InProgressStatuses \cup {"bogus"}

----------------------------------------------------------------------------
(* HTTP answers *)

StatusValues == {None} \cup {Some(s) : s \in Statuses}

SuccessValues == {None, Some(TRUE), Some(FALSE)}

\* absent, zero, one, and a value above every max_attempts of the model
CountValues == {None, Some(0), Some(1), Some(MaxAttempts + 2)}

\* JSON objects a polled resource answers with
PollDicts ==
    [type : {"dict"}, status : StatusValues, success : SuccessValues,
     count : CountValues]

\* JSON objects POST container answers with
ContainerDicts == [type : {"dict"}, id : {None} \cup {Some(x) : x \in Ids}]

\* JSON objects POST playbook_run answers with
RunDicts == [type : {"dict"}, playbook_run_id : {None} \cup {Some(x) : x \in RunIds}]

\* a non-success HTTP status
HTTPError == [ok |-> FALSE, body |-> PyNone]

Answers(dicts) == {HTTPError} \cup [ok : {TRUE}, body : dicts \cup {PyNone}]

----------------------------------------------------------------------------
(* Outcomes of a call *)

NoResult == [kind |-> "running", exc |-> "", value |-> PyNone]

Return(v) == [kind |-> "return", exc |-> "", value |-> v]

Raise(e) == [kind |-> "raise", exc |-> e, value |-> PyNone]

----------------------------------------------------------------------------
VARIABLES
    container_id_set,  \* whether self._container_id exists (not set by __init__)
    container_id,      \* self._container_id
    template_id,       \* self._template_id, an attribute cell
    template_name,     \* self._template_name, an attribute cell
    case_id,           \* self._case_id, an attribute cell
    artifact_id,       \* self._artifact_id
    artifact_name,     \* self._artifact_name
    file_id,           \* self._file_id
    file_name,         \* self._file_name
    playbook_run_id,   \* self._playbook_run_id
    playbook_name,     \* self._playbook_name
    last_run_product_name,    \* self._last_run_product_name
    last_run_application_id,  \* self._last_run_application_id
    last_run_action_id,       \* self._last_run_action_id
    last_run_action_name,     \* self._last_run_action_name
    pc,                \* "idle", or the place of the call in progress in _wait
    op,                \* the call in progress, or the last one
    interval,          \* argument of the call
    max_attempts,      \* argument of the call
    wait,              \* argument of the call
    arg_id,            \* the optional identifier argument of the call
    path,              \* what is on disk at the file_name argument of the call
    kwargs,            \* the other arguments of a run_playbook call
    i,                 \* how many values range(max_attempts) has yielded
    count,             \* _wait's local `count`
    post_response,     \* json() of the local `post_response`
    fetches,           \* GET requests sent by the call
    sleeps,            \* time.sleep calls made by the call
    seen,              \* what each GET of the call observed, in order
    sent,              \* every request of the call, in order, and how it ended
    target,            \* the identifier the call's request was addressed to
    body,              \* the body of the request a run_playbook call sent
    result,            \* the call's outcome
    objects,           \* two client objects: the value of each attribute cell
    caller,            \* the object whose method was called last
    created            \* per object, the id its last successful create_container got

containerVars == <<container_id_set, container_id>>

caseVars == <<template_id, template_name, case_id>>

artifactVars == <<artifact_id, artifact_name>>

fileVars == <<file_id, file_name>>

playbookVars == <<playbook_run_id, playbook_name>>

actionVars == <<last_run_product_name, last_run_application_id,
                last_run_action_id, last_run_action_name>>

clientVars == <<containerVars, caseVars, artifactVars, fileVars, playbookVars,
                actionVars>>

argVars == <<interval, max_attempts, wait, arg_id, path>>

localVars == <<i, count, post_response, fetches, sleeps, seen, sent, target>>

twoVars == <<objects, caller, created>>

requestVars == <<kwargs, body>>

vars == <<clientVars, argVars, localVars, pc, op, result, twoVars, requestVars>>

----------------------------------------------------------------------------
(* Helpers translated from the source *)

\* a hook that only logs: a non-success status goes unnoticed
hook_raises_never(r) == FALSE

\* _hook_response, lines 178-186: raise_for_status() raises on a non-success
\* HTTP status, and the exception leaves the session's get/post call
hook_raises(r) == ~r.ok

\* an inclusive bound: one iteration too many
RangeYields_inclusive(n, max) == n <= max

\* the loop stops once the payload's count has reached max_attempts
RangeYields_reads_count(n, max) ==
    IF count # None /\ count[1] >= max THEN FALSE ELSE n < max

\* line 231, `for count in range(max_attempts)`: whether the range yields
\* another value after n values.  The iterator keeps its own position; the
\* assignment to `count` on line 235 does not touch it.
RangeYields(n, max) == n < max

\* a foreign status is waited on instead of raised
wait_branch_retries_unknown(status, success, cnt) ==
    IF status # None /\ status[1] \in TerminalStatuses THEN "return_status"
    ELSE IF status # None /\ status[1] \in InProgressStatuses THEN "sleep"
    ELSE IF TruthySuccess(success) THEN "return_success"
    ELSE IF TruthyInt(cnt) THEN "return_count"
    ELSE IF status # None THEN "sleep"
    ELSE "raise"

\* 'open' is missing from the terminal list
wait_branch_without_open(status, success, cnt) ==
    IF status # None /\ status[1] \in TerminalStatuses \ {"open"}
    THEN "return_status"
    ELSE IF status # None /\ status[1] \in InProgressStatuses THEN "sleep"
    ELSE IF TruthySuccess(success) THEN "return_success"
    ELSE IF TruthyInt(cnt) THEN "return_count"
    ELSE "raise"

\* the `count` fallback is missing
wait_branch_without_count(status, success, cnt) ==
    IF status # None /\ status[1] \in TerminalStatuses THEN "return_status"
    ELSE IF status # None /\ status[1] \in InProgressStatuses THEN "sleep"
    ELSE IF TruthySuccess(success) THEN "return_success"
    ELSE "raise"

\* 'pending' is listed as terminal
wait_branch_pending_terminal(status, success, cnt) ==
    IF status # None /\ status[1] \in TerminalStatuses \cup {"pending"}
    THEN "return_status"
    ELSE IF status # None /\ status[1] \in InProgressStatuses THEN "sleep"
    ELSE IF TruthySuccess(success) THEN "return_success"
    ELSE IF TruthyInt(cnt) THEN "return_count"
    ELSE "raise"

\* the poller consults `success` and `count` before the status
wait_branch_fallback_first(status, success, cnt) ==
    IF TruthySuccess(success) THEN "return_success"
    ELSE IF TruthyInt(cnt) THEN "return_count"
    ELSE IF status # None /\ status[1] \in TerminalStatuses THEN "return_status"
    ELSE IF status # None /\ status[1] \in InProgressStatuses THEN "sleep"
    ELSE "raise"

\* lines 236-246: the branch the if/elif chain takes.  `None in [...]` is
\* False, so a missing status falls through to the `success` test.
wait_branch(status, success, cnt) ==
    IF status # None /\ status[1] \in TerminalStatuses THEN "return_status"
    ELSE IF status # None /\ status[1] \in InProgressStatuses THEN "sleep"
    ELSE IF TruthySuccess(success) THEN "return_success"
    ELSE IF TruthyInt(cnt) THEN "return_count"
    ELSE "raise"

\* the last payload is returned when the attempts run out
wait_exhausted_returns_payload == Return(post_response)

\* _wait falls off the end of the function when the range is exhausted
\* (lines 247-248 follow the raise and never run): the call returns None
wait_exhausted_result == Return(PyNone)

\* the first identifier is kept
set_container_id_keeps_first(old, new) == IF old = None THEN new ELSE old

\* _set_container_id, lines 473-474: the attribute is overwritten
set_container_id(old, new) == new

\* the list is replaced by a list of the new identifier alone
set_playbook_run_id_overwrites(old, new) == <<new>>

\* _set_playbook_run_id / _set_playbook_name, lines 929-936: list.append
set_playbook_run_id(old, new) == Append(old, new)

\* _url, line 188: the parameters a caller may pass by keyword
url_keywords == {"url_path", "filter", "page_number", "page_size"}

\* _url takes any keyword
url_call_binds_any(kw) == TRUE

\* whether a call of _url with these keyword arguments binds (else TypeError)
url_call_binds(kw) == kw \subseteq url_keywords

SawHttpError == "<http error>"

SawNull == "<null>"

SawNoStatus == "<no status>"

\* what a GET of the polled resource showed, as recorded in `seen`
Observed(r) ==
    IF ~r.ok THEN SawHttpError
    ELSE IF r.body.type # "dict" THEN SawNull
    ELSE IF r.body.status = None THEN SawNoStatus
    ELSE r.body.status[1]

\* the call-local state at the start of a call
FreshLocals ==
    /\ i' = 0
    /\ count' = None
    /\ fetches' = 0
    /\ sleeps' = 0
    /\ seen' = <<>>


----------------------------------------------------------------------------
(* Values and helpers of the request builders *)

\* list[-1] of a list that is not empty
Last(s) == s[Len(s)]

\* an attribute the object does not have (none of _container_id,
\* _template_id, _template_name, _case_id is created by __init__)
NoAttribute == <<>>

\* an attribute holding v
Attribute(v) == <<v>>

\* what is on disk at the path given to upload_file_to_phantom
Paths == {"missing", "unreadable", "empty", "content"}

TemplateNames == {"tpl"}

AssetNames == {"smtp"}

ActionNames == {"send email"}

ArtifactNames == {"Test Artifact"}

FileNames == {"report.txt"}

\* identifiers found by a lookup, of created cases and of started actions
LookupIds == {3}

CaseIds == {9}

ActionRunIds == {11}

\* payloads of a playbook run that carry a status and nothing else
RunStatusDicts == {d \in PollDicts : d.success = None /\ d.count = None}

\* JSON objects a lookup by name answers with: `data` stands for data[0],
\* absent when the key is missing or the list is empty
LookupDicts == [type : {"dict"}, data : {None} \cup {Some(x) : x \in LookupIds}]

\* JSON objects the promotion of a container answers with
CaseDicts == [type : {"dict"}, id : {None} \cup {Some(x) : x \in CaseIds}]

\* JSON objects POST action_run answers with
ActionDicts ==
    [type : {"dict"}, action_run_id : {None} \cup {Some(x) : x \in ActionRunIds}]

\* scope and run_confirmation of a run_playbook call, line 697
RunOptions == {[scope |-> "new", run |-> TRUE], [scope |-> "all", run |-> FALSE]}

\* the arguments of a call that is not a run_playbook call
NoArgs == [playbook_name |-> "", scope |-> "", run |-> FALSE]

\* json.dumps: the text that serialises v
dumps(v) == [type |-> "str", json |-> v]

\* no request body recorded
NoBody == dumps(PyNone)

\* the body depends on whether a run was recorded before
run_playbook_body_reads_history(cid, name, scope, run) ==
    dumps(dumps([container_id |-> cid, playbook_id |-> name, scope |-> scope,
                 run |-> run /\ playbook_run_id = <<>>]))

\* run_playbook, lines 715-724: post_data, serialised on line 722 and once
\* more by the json= parameter of the session's post
run_playbook_body(cid, name, scope, run) ==
    dumps(dumps([container_id |-> cid, playbook_id |-> name, scope |-> scope,
                 run |-> run]))

\* the optional identifier arguments a caller may pass
IdArgs(ids) == {None} \cup {Some(x) : x \in ids}

\* one request of a call: its verb and whether the status was a success
Request(verb, r) == [verb |-> verb, ok |-> r.ok]

\* `if not container_id: container_id = self._get_container_id()`, and the
\* same for playbook_id at lines 746-747: an identifier that is falsy is
\* replaced by the default
effective_id(given, default) == IF TruthyInt(given) THEN given ELSE default

\* the attributes of a phantasm object that the request builders look up
class_attributes == {"_url", "_wait", "_sess", "_hook_response"}

\* whether self.<name> resolves (else AttributeError)
has_attribute(name) == name \in class_attributes

\* the names bound inside upload_file_to_phantom: the module's imports
\* (lines 41-45) and the parameters (line 629)
bound_names ==
    {"os", "sys", "csv", "json", "requests", "time", "logging",
     "self", "file_name", "container_id"}

\* a path that does not exist is uploaded like any other
upload_flow_ignores_missing(p) == "post"

\* upload_file_to_phantom, lines 646-670: where the function ends for a path
upload_flow(p) ==
    IF p = "missing" THEN "return_none"
    ELSE IF "filename" \notin bound_names THEN "NameError"
    ELSE IF p = "unreadable" THEN "AttributeError"
    ELSE IF p = "empty" THEN "return_none"
    ELSE IF "base64" \notin bound_names THEN "NameError"
    ELSE "post"

\* get_application_id, lines 967-980, once both URLs are built: r1 and r2
\* answer the two POSTs
application_lookup(r1, r2) ==
    IF hook_raises(r1) THEN
        [exc |-> "HTTPError", sent |-> <<Request("POST", r1)>>,
         product |-> FALSE, app |-> FALSE]
    ELSE IF r1.body.type # "dict" THEN
        [exc |-> "TypeError", sent |-> <<Request("POST", r1)>>,
         product |-> FALSE, app |-> FALSE]
    ELSE IF r1.body.data = None THEN
        [exc |-> "KeyError", sent |-> <<Request("POST", r1)>>,
         product |-> FALSE, app |-> FALSE]
    ELSE IF hook_raises(r2) THEN
        [exc |-> "HTTPError",
         sent |-> <<Request("POST", r1), Request("POST", r2)>>,
         product |-> TRUE, app |-> FALSE]
    ELSE IF r2.body.type # "dict" THEN
        [exc |-> "TypeError",
         sent |-> <<Request("POST", r1), Request("POST", r2)>>,
         product |-> TRUE, app |-> FALSE]
    ELSE IF r2.body.data = None THEN
        [exc |-> "KeyError",
         sent |-> <<Request("POST", r1), Request("POST", r2)>>,
         product |-> TRUE, app |-> FALSE]
    ELSE
        [exc |-> "none",
         sent |-> <<Request("POST", r1), Request("POST", r2)>>,
         product |-> TRUE, app |-> TRUE]

\* the product name a lookup answers with
ProductName == "product"

\* create_container and the like in test_example.py, lines 20-50: the
\* exception is raised only for a None return value, and it is caught in the
\* same function, which then prints and returns None
test_wrapper(res) == IF res = Return(PyNone) THEN Return(PyNone) ELSE res

\* two client objects
Objects == {"A", "B"}

\* the attributes of an object that the two-object actions use
Attributes == {"_container_id", "_playbook_run_id", "_playbook_name"}

\* the attributes live on the class, shared by its objects
attribute_cell_of_class(self, attr) == <<"phantasm", attr>>

\* __init__, lines 121-159, and _set_container_id, line 474: every attribute
\* is assigned on self, and the lists are new objects made by __init__
attribute_cell(self, attr) == <<self, attr>>

Cells == {attribute_cell(o, a) : o \in Objects, a \in Attributes}


\* JSON objects a DELETE or POST of container/<id> and a POST of
\* playbook/<id> answer with
SuccessDicts == [type : {"dict"}, success : {Some(TRUE), Some(FALSE)}]

\* the default is taken although self._container_id does not exist
get_container_id_raises_never == FALSE

\* lines 476-477: `return self._container_id` raises AttributeError on an
\* object that has created no container
get_container_id_raises == ~container_id_set

\* payloads the first GET of an action run answers with: no status, and one
\* status that is terminal, one in progress, one neither
ActionRunDicts ==
    {d \in RunStatusDicts :
        d.status \in {None, Some("success"), Some("running"), Some("bogus")}}

\* the names get_action_run_data may read before assigning them: its
\* parameters, line 1046
action_run_data_parameters ==
    {"self", "action_run_id", "wait", "interval", "max_attempts"}

-----------------------------------------------------------------------------
(* The public accessors of the histories                                    *)

\* lines 608-616, 679-689, 932-939: each getter returns the list itself
get_artifact_id == artifact_id
get_artifact_name == artifact_name
get_file_id == file_id
get_file_name == file_name
get_playbook_run_id == playbook_run_id
get_playbook_name == playbook_name

\* lines 622-623, 691-692, 944-945: the getter each property is built from
artifact_id_property == get_artifact_id
artifact_name_property == get_artifact_name
file_id_property == get_file_id
file_name_property == get_file_name
playbook_run_id_property == get_file_id
playbook_name_property == get_file_name
----------------------------------------------------------------------------
Init ==
    /\ container_id_set = FALSE
    /\ container_id = None
    /\ template_id = NoAttribute
    /\ template_name = NoAttribute
    /\ case_id = NoAttribute
    /\ artifact_id = <<>>
    /\ artifact_name = <<>>
    /\ file_id = <<>>
    /\ file_name = <<>>
    /\ playbook_run_id = <<>>
    /\ playbook_name = <<>>
    /\ last_run_product_name = ""
    /\ last_run_application_id = ""
    /\ last_run_action_id = ""
    /\ last_run_action_name = ""
    /\ pc = "idle"
    /\ op = "none"
    /\ interval = 0
    /\ max_attempts = 0
    /\ wait = FALSE
    /\ arg_id = None
    /\ path = "none"
    /\ kwargs = NoArgs
    /\ body = NoBody
    /\ i = 0
    /\ count = None
    /\ post_response = PyNone
    /\ fetches = 0
    /\ sleeps = 0
    /\ seen = <<>>
    /\ sent = <<>>
    /\ target = NoAttribute
    /\ result = NoResult
    /\ objects = [c \in Cells |-> <<>>]
    /\ caller = "none"
    /\ created = [o \in Objects |-> NoAttribute]

----------------------------------------------------------------------------
(* _wait, lines 216-248 *)

\* a caller enters _wait(url, interval, max_attempts)
wait_call ==
    /\ pc = "idle"
    /\ \E iv \in Intervals, n \in 0..MaxAttempts :
        /\ interval' = iv
        /\ max_attempts' = n
    /\ wait' = TRUE
    /\ arg_id' = None
    /\ path' = "none"
    /\ kwargs' = NoArgs
    /\ body' = NoBody
    /\ op' = "_wait"
    /\ pc' = "fetch"
    /\ result' = NoResult
    /\ FreshLocals
    /\ post_response' = PyNone
    /\ sent' = <<>>
    /\ target' = NoAttribute
    /\ UNCHANGED <<clientVars, twoVars>>

\* one iteration of the loop, lines 231-246, up to the sleep
wait_fetch ==
    /\ pc = "fetch"
    /\ RangeYields(i, max_attempts)
    /\ \E r \in Answers(PollDicts) :
        /\ i' = i + 1
        /\ fetches' = fetches + 1
        /\ seen' = Append(seen, Observed(r))
        /\ sent' = Append(sent, Request("GET", r))
        /\ IF hook_raises(r) THEN
               \* line 232: the GET raises, nothing is assigned
               /\ count' = Some(i)
               /\ post_response' = post_response
               /\ pc' = "idle"
               /\ result' = Raise("HTTPError")
           ELSE IF r.body.type # "dict" THEN
               \* line 233: None has no .get
               /\ count' = Some(i)
               /\ post_response' = r.body
               /\ pc' = "idle"
               /\ result' = Raise("AttributeError")
           ELSE
               LET branch ==
                       wait_branch(r.body.status, r.body.success, r.body.count)
               IN  /\ count' = r.body.count
                   /\ post_response' = r.body
                   /\ pc' = IF branch = "sleep" THEN "sleep" ELSE "idle"
                   /\ result' =
                          IF branch = "sleep" THEN result
                          ELSE IF branch = "raise" THEN Raise("ValueError")
                          ELSE Return(r.body)
    /\ UNCHANGED <<clientVars, argVars, sleeps, target, op, twoVars,
                   requestVars>>

\* the sleep changes the interval of the call
wait_sleep_resets_interval ==
    /\ pc = "sleep"
    /\ sleeps' = sleeps + 1
    /\ pc' = "fetch"
    /\ interval' = 0
    /\ UNCHANGED <<clientVars, max_attempts, wait, arg_id, path, i, count,
                   post_response, fetches, seen, sent, target, op, result,
                   twoVars, requestVars>>

\* the poller sleeps twice between two GETs
wait_sleep_twice ==
    /\ pc = "sleep"
    /\ sleeps' = sleeps + 2
    /\ pc' = "fetch"
    /\ UNCHANGED <<clientVars, argVars, i, count, post_response, fetches, seen,
                   sent, target, op, result, twoVars, requestVars>>

\* lines 239-240: time.sleep(interval), then continue
wait_sleep ==
    /\ pc = "sleep"
    /\ sleeps' = sleeps + 1
    /\ pc' = "fetch"
    /\ UNCHANGED <<clientVars, argVars, i, count, post_response, fetches, seen,
                   sent, target, op, result, twoVars, requestVars>>

\* the range is exhausted: the loop ends and the function returns
wait_exhaust ==
    /\ pc = "fetch"
    /\ ~RangeYields(i, max_attempts)
    /\ pc' = "idle"
    /\ result' = wait_exhausted_result
    /\ UNCHANGED <<clientVars, argVars, localVars, op, twoVars, requestVars>>

----------------------------------------------------------------------------
(* create_container, lines 253-296 *)

create_container ==
    /\ pc = "idle"
    /\ \E r \in Answers(ContainerDicts) :
        /\ FreshLocals
        /\ sent' = <<Request("POST", r)>>
        /\ IF hook_raises(r) THEN
               \* line 294: the POST raises
               /\ post_response' = PyNone
               /\ result' = Raise("HTTPError")
               /\ UNCHANGED <<container_id_set, container_id>>
           ELSE IF r.body.type # "dict" THEN
               \* line 295: None has no .get
               /\ post_response' = r.body
               /\ result' = Raise("AttributeError")
               /\ UNCHANGED <<container_id_set, container_id>>
           ELSE
               \* lines 295-296
               /\ post_response' = r.body
               /\ container_id_set' = TRUE
               /\ container_id' = set_container_id(container_id, r.body.id)
               /\ result' = Return(post_response')
    /\ op' = "create_container"
    /\ pc' = "idle"
    /\ interval' = 0
    /\ max_attempts' = 0
    /\ wait' = FALSE
    /\ arg_id' = None
    /\ path' = "none"
    /\ kwargs' = NoArgs
    /\ body' = NoBody
    /\ target' = NoAttribute
    /\ UNCHANGED <<caseVars, artifactVars, fileVars, playbookVars, actionVars,
                   twoVars>>

----------------------------------------------------------------------------
(* promote_container_to_case, lines 390-424 *)

promote_container_to_case ==
    /\ pc = "idle"
    /\ \E tn \in TemplateNames, cid \in IdArgs(Ids) :
        /\ arg_id' = cid
        /\ IF ~TruthyInt(cid) /\ ~container_id_set THEN
               \* lines 404-405: self._container_id does not exist yet
               /\ sent' = <<>>
               /\ target' = NoAttribute
               /\ post_response' = PyNone
               /\ result' = Raise("AttributeError")
               /\ UNCHANGED caseVars
           ELSE
               \E r1 \in Answers(LookupDicts) :
                   IF hook_raises(r1) THEN
                       \* line 408: the first POST raises
                       /\ sent' = <<Request("POST", r1)>>
                       /\ target' = NoAttribute
                       /\ post_response' = PyNone
                       /\ result' = Raise("HTTPError")
                       /\ UNCHANGED caseVars
                   ELSE IF r1.body.type # "dict" THEN
                       \* line 412: None is not subscriptable
                       /\ sent' = <<Request("POST", r1)>>
                       /\ target' = NoAttribute
                       /\ post_response' = r1.body
                       /\ result' = Raise("TypeError")
                       /\ UNCHANGED caseVars
                   ELSE IF r1.body.data = None THEN
                       \* line 412: no 'data', or an empty list
                       /\ sent' = <<Request("POST", r1)>>
                       /\ target' = NoAttribute
                       /\ post_response' = r1.body
                       /\ result' = Raise("KeyError")
                       /\ UNCHANGED caseVars
                   ELSE
                       \* lines 413-424: the template is recorded, then the
                       \* second POST is sent
                       \E r2 \in Answers(CaseDicts) :
                           /\ template_id' = Attribute(r1.body.data)
                           /\ template_name' = Attribute(tn)
                           /\ sent' = <<Request("POST", r1),
                                        Request("POST", r2)>>
                           /\ target' =
                                  Attribute(effective_id(cid, container_id))
                           /\ IF hook_raises(r2) THEN
                                  /\ post_response' = r1.body
                                  /\ result' = Raise("HTTPError")
                                  /\ UNCHANGED case_id
                              ELSE IF r2.body.type # "dict" THEN
                                  /\ post_response' = r2.body
                                  /\ result' = Raise("AttributeError")
                                  /\ UNCHANGED case_id
                              ELSE
                                  /\ post_response' = r2.body
                                  /\ case_id' = Attribute(r2.body.id)
                                  /\ result' = Return(r2.body)
    /\ FreshLocals
    /\ op' = "promote_container_to_case"
    /\ pc' = "idle"
    /\ interval' = 0
    /\ max_attempts' = 0
    /\ wait' = FALSE
    /\ path' = "none"
    /\ kwargs' = NoArgs
    /\ body' = NoBody
    /\ UNCHANGED <<containerVars, artifactVars, fileVars, playbookVars,
                   actionVars, twoVars>>

----------------------------------------------------------------------------
(* add_artifact, lines 538-581 *)

add_artifact ==
    /\ pc = "idle"
    /\ Len(artifact_id) < MaxHistory
    /\ \E name \in ArtifactNames, cid \in IdArgs(Ids) :
        /\ arg_id' = cid
        /\ IF ~TruthyInt(cid) /\ ~container_id_set THEN
               \* lines 561-562: self._container_id does not exist yet
               /\ sent' = <<>>
               /\ target' = NoAttribute
               /\ post_response' = PyNone
               /\ result' = Raise("AttributeError")
               /\ UNCHANGED artifactVars
           ELSE IF ~has_attribute("url") THEN
               \* line 577: the object has _url, and no attribute `url`
               /\ sent' = <<>>
               /\ target' = NoAttribute
               /\ post_response' = PyNone
               /\ result' = Raise("AttributeError")
               /\ UNCHANGED artifactVars
           ELSE
               \E r \in Answers(ContainerDicts) :
                   /\ sent' = <<Request("POST", r)>>
                   /\ target' = Attribute(effective_id(cid, container_id))
                   /\ IF hook_raises(r) THEN
                          /\ post_response' = PyNone
                          /\ result' = Raise("HTTPError")
                          /\ UNCHANGED artifactVars
                      ELSE IF r.body.type # "dict" THEN
                          /\ post_response' = r.body
                          /\ result' = Raise("AttributeError")
                          /\ UNCHANGED artifactVars
                      ELSE
                          \* lines 578-581
                          /\ post_response' = r.body
                          /\ artifact_id' = Append(artifact_id, r.body.id)
                          /\ artifact_name' = Append(artifact_name, name)
                          /\ result' = Return(r.body)
    /\ FreshLocals
    /\ op' = "add_artifact"
    /\ pc' = "idle"
    /\ interval' = 0
    /\ max_attempts' = 0
    /\ wait' = FALSE
    /\ path' = "none"
    /\ kwargs' = NoArgs
    /\ body' = NoBody
    /\ UNCHANGED <<containerVars, caseVars, fileVars, playbookVars, actionVars,
                   twoVars>>

----------------------------------------------------------------------------
(* upload_file_to_phantom, lines 629-670 *)

upload_file_to_phantom ==
    /\ pc = "idle"
    /\ Len(file_id) < MaxHistory
    /\ \E name \in FileNames, p \in Paths, cid \in IdArgs(Ids) :
        /\ arg_id' = cid
        /\ path' = p
        /\ kwargs' = NoArgs
        /\ body' = NoBody
        /\ IF ~TruthyInt(cid) /\ ~container_id_set THEN
               \* lines 643-644: self._container_id does not exist yet
               /\ sent' = <<>>
               /\ target' = NoAttribute
               /\ post_response' = PyNone
               /\ result' = Raise("AttributeError")
               /\ UNCHANGED fileVars
           ELSE IF upload_flow(p) # "post" THEN
               \* the function ends before line 665
               /\ sent' = <<>>
               /\ target' = NoAttribute
               /\ post_response' = PyNone
               /\ result' = IF upload_flow(p) = "return_none"
                            THEN Return(PyNone)
                            ELSE Raise(upload_flow(p))
               /\ UNCHANGED fileVars
           ELSE
               \E r \in Answers(ContainerDicts) :
                   /\ sent' = <<Request("POST", r)>>
                   /\ target' = Attribute(effective_id(cid, container_id))
                   /\ IF hook_raises(r) THEN
                          \* line 665: the POST raises
                          /\ post_response' = PyNone
                          /\ result' = Raise("HTTPError")
                          /\ UNCHANGED fileVars
                      ELSE IF "response_to_post" \notin bound_names THEN
                          \* line 666: the response is named post_response
                          /\ post_response' = r.body
                          /\ result' = Raise("NameError")
                          /\ UNCHANGED fileVars
                      ELSE IF r.body.type # "dict" THEN
                          /\ post_response' = r.body
                          /\ result' = Raise("AttributeError")
                          /\ UNCHANGED fileVars
                      ELSE
                          \* lines 666-668
                          /\ post_response' = r.body
                          /\ file_id' = Append(file_id, r.body.id)
                          /\ file_name' = Append(file_name, name)
                          /\ result' = Return(r.body)
    /\ FreshLocals
    /\ op' = "upload_file_to_phantom"
    /\ pc' = "idle"
    /\ interval' = 0
    /\ max_attempts' = 0
    /\ wait' = FALSE
    /\ UNCHANGED <<containerVars, caseVars, artifactVars, playbookVars,
                   actionVars, twoVars>>

----------------------------------------------------------------------------
(* run_playbook, lines 697-728 *)

run_playbook ==
    /\ pc = "idle"
    /\ Len(playbook_run_id) < MaxHistory
    /\ \E name \in PlaybookNames, cid \in {None} \cup {Some(x) : x \in Ids},
          o \in RunOptions, r \in Answers(RunDicts) :
        /\ arg_id' = cid
        /\ kwargs' = [playbook_name |-> name, scope |-> o.scope, run |-> o.run]
        /\ body' =
               IF ~TruthyInt(cid) /\ ~container_id_set THEN NoBody
               ELSE run_playbook_body(effective_id(cid, container_id), name,
                                      o.scope, o.run)
        /\ IF ~TruthyInt(cid) /\ ~container_id_set THEN
               \* lines 713-714: self._container_id does not exist yet
               /\ sent' = <<>>
               /\ target' = NoAttribute
               /\ post_response' = PyNone
               /\ result' = Raise("AttributeError")
               /\ UNCHANGED <<playbook_run_id, playbook_name>>
           ELSE IF hook_raises(r) THEN
               \* line 724: the POST raises
               /\ sent' = <<Request("POST", r)>>
               /\ target' = Attribute(effective_id(cid, container_id))
               /\ post_response' = PyNone
               /\ result' = Raise("HTTPError")
               /\ UNCHANGED <<playbook_run_id, playbook_name>>
           ELSE IF r.body.type # "dict" THEN
               \* line 725: None has no .get
               /\ sent' = <<Request("POST", r)>>
               /\ target' = Attribute(effective_id(cid, container_id))
               /\ post_response' = r.body
               /\ result' = Raise("AttributeError")
               /\ UNCHANGED <<playbook_run_id, playbook_name>>
           ELSE
               \* lines 725-728
               /\ sent' = <<Request("POST", r)>>
               /\ target' = Attribute(effective_id(cid, container_id))
               /\ post_response' = r.body
               /\ playbook_run_id' =
                      set_playbook_run_id(playbook_run_id, r.body.playbook_run_id)
               /\ playbook_name' = Append(playbook_name, name)
               /\ result' = Return(post_response')
    /\ FreshLocals
    /\ op' = "run_playbook"
    /\ pc' = "idle"
    /\ interval' = 0
    /\ max_attempts' = 0
    /\ wait' = FALSE
    /\ path' = "none"
    /\ UNCHANGED <<containerVars, caseVars, artifactVars, fileVars, actionVars,
                   twoVars>>

----------------------------------------------------------------------------
(* get_playbook_results, lines 730-752 *)

get_playbook_results ==
    /\ pc = "idle"
    /\ \E pid \in IdArgs(RunIds \cup {0}), w \in BOOLEAN :
        /\ arg_id' = pid
        /\ wait' = w
        \* neither is read by the function: one value of each is enough
        /\ interval' = 1
        /\ max_attempts' = MaxAttempts
        /\ IF ~TruthyInt(pid) /\ playbook_run_id = <<>> THEN
               \* line 747: [-1] of an empty list
               /\ fetches' = 0
               /\ seen' = <<>>
               /\ sent' = <<>>
               /\ target' = NoAttribute
               /\ post_response' = PyNone
               /\ result' = Raise("IndexError")
           ELSE
               \* lines 749-752: one GET, whose JSON is returned; wait,
               \* interval and max_attempts are not read
               \E r \in Answers(RunStatusDicts) :
                   /\ fetches' = 1
                   /\ seen' = <<Observed(r)>>
                   /\ sent' = <<Request("GET", r)>>
                   /\ target' =
                          Attribute(effective_id(pid, Last(playbook_run_id)))
                   /\ post_response' = IF hook_raises(r) THEN PyNone ELSE r.body
                   /\ result' = IF hook_raises(r) THEN Raise("HTTPError")
                                ELSE Return(r.body)
    /\ i' = 0
    /\ count' = None
    /\ sleeps' = 0
    /\ path' = "none"
    /\ kwargs' = NoArgs
    /\ body' = NoBody
    /\ op' = "get_playbook_results"
    /\ pc' = "idle"
    /\ UNCHANGED <<clientVars, twoVars>>

----------------------------------------------------------------------------
(* get_playbook_action_results, lines 754-783 *)

get_playbook_action_results ==
    /\ pc = "idle"
    /\ \E pid \in {None} \cup {Some(x) : x \in RunIds \cup {0}},
          w \in BOOLEAN, iv \in Intervals, n \in 0..MaxAttempts :
        /\ arg_id' = pid
        /\ wait' = w
        /\ interval' = iv
        /\ max_attempts' = n
        /\ IF pid = None /\ playbook_run_id = <<>> THEN
               \* line 772: [-1] of an empty list
               /\ fetches' = 0
               /\ seen' = <<>>
               /\ sent' = <<>>
               /\ target' = NoAttribute
               /\ post_response' = PyNone
               /\ pc' = "idle"
               /\ result' = Raise("IndexError")
           ELSE IF ~url_call_binds({"filters"}) THEN
               \* line 777: _url has no parameter named `filters`
               /\ fetches' = 0
               /\ seen' = <<>>
               /\ sent' = <<>>
               /\ target' = NoAttribute
               /\ post_response' = PyNone
               /\ pc' = "idle"
               /\ result' = Raise("TypeError")
           ELSE
               \* lines 779-783: one GET, then _wait or the GET's payload
               \E r \in Answers(PollDicts) :
                   /\ fetches' = 1
                   /\ seen' = <<Observed(r)>>
                   /\ sent' = <<Request("GET", r)>>
                   /\ target' = Attribute(IF pid = None
                                          THEN Last(playbook_run_id) ELSE pid)
                   /\ post_response' = IF hook_raises(r) THEN PyNone ELSE r.body
                   /\ pc' = IF ~hook_raises(r) /\ w THEN "fetch" ELSE "idle"
                   /\ result' =
                          IF hook_raises(r) THEN Raise("HTTPError")
                          ELSE IF w THEN NoResult
                          ELSE Return(r.body)
    /\ i' = 0
    /\ count' = None
    /\ sleeps' = 0
    /\ path' = "none"
    /\ kwargs' = NoArgs
    /\ body' = NoBody
    /\ op' = "get_playbook_action_results"
    /\ UNCHANGED <<clientVars, twoVars>>

----------------------------------------------------------------------------
(* get_application_id, lines 951-980 *)

get_application_id ==
    /\ pc = "idle"
    /\ \E an \in AssetNames :
        IF ~url_call_binds({"filters"}) THEN
            \* line 966: _url has no parameter named `filters`
            /\ sent' = <<>>
            /\ post_response' = PyNone
            /\ result' = Raise("TypeError")
            /\ UNCHANGED actionVars
        ELSE
            \E r1 \in Answers(LookupDicts), r2 \in Answers(LookupDicts) :
                LET g == application_lookup(r1, r2)
                IN  /\ sent' = g.sent
                    /\ post_response' = IF g.app THEN r2.body ELSE PyNone
                    /\ result' = IF g.exc = "none" THEN Return(r2.body)
                                 ELSE Raise(g.exc)
                    /\ last_run_product_name' =
                           IF g.product THEN ProductName
                           ELSE last_run_product_name
                    /\ last_run_application_id' =
                           IF g.app THEN r2.body.data
                           ELSE last_run_application_id
                    /\ UNCHANGED <<last_run_action_id, last_run_action_name>>
    /\ FreshLocals
    /\ target' = NoAttribute
    /\ op' = "get_application_id"
    /\ pc' = "idle"
    /\ interval' = 0
    /\ max_attempts' = 0
    /\ wait' = FALSE
    /\ arg_id' = None
    /\ path' = "none"
    /\ kwargs' = NoArgs
    /\ body' = NoBody
    /\ UNCHANGED <<containerVars, caseVars, artifactVars, fileVars,
                   playbookVars, twoVars>>

----------------------------------------------------------------------------
(* run_action, lines 982-1018 *)

run_action ==
    /\ pc = "idle"
    /\ \E cid \in IdArgs(Ids), act \in ActionNames, an \in AssetNames :
        /\ arg_id' = cid
        /\ IF ~TruthyInt(cid) /\ ~container_id_set THEN
               \* lines 997-998: self._container_id does not exist yet
               /\ sent' = <<>>
               /\ target' = NoAttribute
               /\ post_response' = PyNone
               /\ result' = Raise("AttributeError")
               /\ UNCHANGED actionVars
           ELSE IF ~url_call_binds({"filters"}) THEN
               \* line 1000: get_application_id raises at its line 966
               /\ sent' = <<>>
               /\ target' = NoAttribute
               /\ post_response' = PyNone
               /\ result' = Raise("TypeError")
               /\ UNCHANGED actionVars
           ELSE
               \E r1 \in Answers(LookupDicts), r2 \in Answers(LookupDicts),
                  r3 \in Answers(ActionDicts) :
                   LET g == application_lookup(r1, r2)
                   IN  /\ last_run_product_name' =
                              IF g.product THEN ProductName
                              ELSE last_run_product_name
                       /\ last_run_application_id' =
                              IF g.app THEN r2.body.data
                              ELSE last_run_application_id
                       /\ IF g.exc # "none" THEN
                              \* line 1000: get_application_id raises
                              /\ sent' = g.sent
                              /\ target' = NoAttribute
                              /\ post_response' = PyNone
                              /\ result' = Raise(g.exc)
                              /\ UNCHANGED <<last_run_action_id,
                                             last_run_action_name>>
                          ELSE IF hook_raises(r3) THEN
                              \* line 1011: the POST raises
                              /\ sent' = Append(g.sent, Request("POST", r3))
                              /\ target' = Attribute(
                                     effective_id(cid, container_id))
                              /\ post_response' = PyNone
                              /\ result' = Raise("HTTPError")
                              /\ UNCHANGED <<last_run_action_id,
                                             last_run_action_name>>
                          ELSE IF r3.body.type # "dict" THEN
                              \* line 1013: None has no .get
                              /\ sent' = Append(g.sent, Request("POST", r3))
                              /\ target' = Attribute(
                                     effective_id(cid, container_id))
                              /\ post_response' = r3.body
                              /\ result' = Raise("AttributeError")
                              /\ UNCHANGED <<last_run_action_id,
                                             last_run_action_name>>
                          ELSE
                              \* lines 1013-1016
                              /\ sent' = Append(g.sent, Request("POST", r3))
                              /\ target' = Attribute(
                                     effective_id(cid, container_id))
                              /\ post_response' = r3.body
                              /\ last_run_action_id' = r3.body.action_run_id
                              /\ last_run_action_name' = act
                              /\ result' = Return(r3.body)
    /\ FreshLocals
    /\ op' = "run_action"
    /\ pc' = "idle"
    /\ interval' = 0
    /\ max_attempts' = 0
    /\ wait' = FALSE
    /\ path' = "none"
    /\ kwargs' = NoArgs
    /\ body' = NoBody
    /\ UNCHANGED <<containerVars, caseVars, artifactVars, fileVars,
                   playbookVars, twoVars>>

----------------------------------------------------------------------------
(* Two client objects: create_container and run_playbook with `self`      *)
(* explicit, every attribute read and written through its cell            *)

\* the value of self.<attr>
attribute(self, attr) == objects[attribute_cell(self, attr)]

obj_create_container(self) ==
    /\ pc = "idle"
    /\ \E r \in Answers(ContainerDicts) :
        /\ sent' = <<Request("POST", r)>>
        /\ IF hook_raises(r) THEN
               \* line 294: the POST raises
               /\ post_response' = PyNone
               /\ result' = Raise("HTTPError")
               /\ UNCHANGED <<objects, created>>
           ELSE IF r.body.type # "dict" THEN
               \* line 295: None has no .get
               /\ post_response' = r.body
               /\ result' = Raise("AttributeError")
               /\ UNCHANGED <<objects, created>>
           ELSE
               \* lines 295-296
               /\ post_response' = r.body
               /\ objects' =
                      [objects EXCEPT ![attribute_cell(self, "_container_id")] =
                          Attribute(set_container_id(None, r.body.id))]
               /\ created' =
                      [created EXCEPT ![self] = Attribute(r.body.id)]
               /\ result' = Return(r.body)
    /\ caller' = self
    /\ op' = "create_container"
    /\ arg_id' = None
    /\ target' = NoAttribute
    /\ kwargs' = NoArgs
    /\ body' = NoBody
    /\ UNCHANGED <<clientVars, interval, max_attempts, wait, path, i, count,
                   fetches, sleeps, seen, pc>>

obj_run_playbook(self) ==
    /\ pc = "idle"
    /\ Len(attribute(self, "_playbook_run_id")) < MaxHistory
    /\ \E name \in PlaybookNames, cid \in IdArgs(Ids) :
        /\ arg_id' = cid
        /\ IF ~TruthyInt(cid) /\ attribute(self, "_container_id") = NoAttribute
           THEN
               \* lines 713-714: self._container_id does not exist yet
               /\ sent' = <<>>
               /\ target' = NoAttribute
               /\ post_response' = PyNone
               /\ result' = Raise("AttributeError")
               /\ UNCHANGED objects
           ELSE
               \E r \in Answers(RunDicts) :
                   /\ sent' = <<Request("POST", r)>>
                   /\ target' =
                          IF TruthyInt(cid) THEN Attribute(cid)
                          ELSE attribute(self, "_container_id")
                   /\ IF hook_raises(r) THEN
                          \* line 724: the POST raises
                          /\ post_response' = PyNone
                          /\ result' = Raise("HTTPError")
                          /\ UNCHANGED objects
                      ELSE IF r.body.type # "dict" THEN
                          \* line 725: None has no .get
                          /\ post_response' = r.body
                          /\ result' = Raise("AttributeError")
                          /\ UNCHANGED objects
                      ELSE
                          \* lines 725-728
                          /\ post_response' = r.body
                          /\ objects' =
                                 [objects EXCEPT
                                     ![attribute_cell(self, "_playbook_run_id")] =
                                         set_playbook_run_id(
                                             @, r.body.playbook_run_id),
                                     ![attribute_cell(self, "_playbook_name")] =
                                         Append(@, name)]
                          /\ result' = Return(r.body)
    /\ caller' = self
    /\ op' = "run_playbook"
    /\ kwargs' = NoArgs
    /\ body' = NoBody
    /\ UNCHANGED <<clientVars, interval, max_attempts, wait, path, i, count,
                   fetches, sleeps, seen, pc, created>>

----------------------------------------------------------------------------
Next ==
    \/ wait_call
    \/ wait_fetch
    \/ wait_sleep
    \/ wait_exhaust
    \/ create_container
    \/ run_playbook
    \/ get_playbook_action_results

Spec == Init /\ [][Next]_vars

\* the poller alone: _wait called directly, on a fresh client
PollNext ==
    \/ wait_call
    \/ wait_fetch
    \/ wait_sleep
    \/ wait_exhaust

PollSpec == Init /\ [][PollNext]_vars

\* the poll loop's steps are taken: every GET is answered (by a payload or an
\* error), every sleep ends, and the interpreter runs the function to its end
FairPollSpec ==
    /\ PollSpec
    /\ WF_vars(wait_fetch)
    /\ WF_vars(wait_sleep)
    /\ WF_vars(wait_exhaust)

\* lines 312-320
update_container_status ==
    /\ pc = "idle"
    /\ \E cid \in IdArgs(Ids) :
        /\ arg_id' = cid
        /\ IF ~TruthyInt(cid) /\ get_container_id_raises THEN
               \* lines 312-313: self._container_id does not exist yet
               /\ sent' = <<>>
               /\ target' = NoAttribute
               /\ post_response' = PyNone
               /\ result' = Raise("AttributeError")
           ELSE
               \* lines 317-320: one POST, whose JSON is returned
               \E r \in Answers(SuccessDicts) :
                   /\ sent' = <<Request("POST", r)>>
                   /\ target' = Attribute(effective_id(cid, container_id))
                   /\ post_response' = IF hook_raises(r) THEN PyNone ELSE r.body
                   /\ result' = IF hook_raises(r) THEN Raise("HTTPError")
                                ELSE Return(r.body)
    /\ FreshLocals
    /\ op' = "update_container_status"
    /\ pc' = "idle"
    /\ interval' = 0
    /\ max_attempts' = 0
    /\ wait' = FALSE
    /\ path' = "none"
    /\ kwargs' = NoArgs
    /\ body' = NoBody
    /\ UNCHANGED <<clientVars, twoVars>>

\* lines 463-467
delete_container ==
    /\ pc = "idle"
    /\ \E cid \in IdArgs(Ids) :
        /\ arg_id' = cid
        /\ IF ~TruthyInt(cid) /\ get_container_id_raises THEN
               \* lines 463-464: self._container_id does not exist yet
               /\ sent' = <<>>
               /\ target' = NoAttribute
               /\ post_response' = PyNone
               /\ result' = Raise("AttributeError")
           ELSE
               \* lines 465-467: one DELETE, whose JSON is returned; nothing
               \* is assigned to the object
               \E r \in Answers(SuccessDicts) :
                   /\ sent' = <<Request("DELETE", r)>>
                   /\ target' = Attribute(effective_id(cid, container_id))
                   /\ post_response' = IF hook_raises(r) THEN PyNone ELSE r.body
                   /\ result' = IF hook_raises(r) THEN Raise("HTTPError")
                                ELSE Return(r.body)
    /\ FreshLocals
    /\ op' = "delete_container"
    /\ pc' = "idle"
    /\ interval' = 0
    /\ max_attempts' = 0
    /\ wait' = FALSE
    /\ path' = "none"
    /\ kwargs' = NoArgs
    /\ body' = NoBody
    /\ UNCHANGED <<clientVars, twoVars>>

\* lines 857-867
alter_playbook_active_state ==
    /\ pc = "idle"
    /\ \E pid \in IdArgs(RunIds \cup {0}) :
        /\ arg_id' = pid
        /\ IF pid = None /\ playbook_run_id = <<>> THEN
               \* line 858: [-1] of an empty list
               /\ sent' = <<>>
               /\ target' = NoAttribute
               /\ post_response' = PyNone
               /\ result' = Raise("IndexError")
           ELSE
               \* lines 864-867: one POST, whose JSON is returned
               \E r \in Answers(SuccessDicts) :
                   /\ sent' = <<Request("POST", r)>>
                   /\ target' = Attribute(IF pid = None
                                          THEN Last(playbook_run_id) ELSE pid)
                   /\ post_response' = IF hook_raises(r) THEN PyNone ELSE r.body
                   /\ result' = IF hook_raises(r) THEN Raise("HTTPError")
                                ELSE Return(r.body)
    /\ FreshLocals
    /\ op' = "alter_playbook_active_state"
    /\ pc' = "idle"
    /\ interval' = 0
    /\ max_attempts' = 0
    /\ wait' = FALSE
    /\ path' = "none"
    /\ kwargs' = NoArgs
    /\ body' = NoBody
    /\ UNCHANGED <<clientVars, twoVars>>

\* the operations that fall back on a recorded identifier, called one after
\* another on one client
DefaultIdNext ==
    \/ create_container
    \/ update_container_status
    \/ delete_container
    \/ add_artifact
    \/ run_playbook
    \/ get_playbook_results
    \/ get_playbook_action_results
    \/ alter_playbook_active_state

DefaultIdSpec == Init /\ [][DefaultIdNext]_vars

\* lines 820-843: each of the three branches builds the URL the same way
get_last_run_playbook_information ==
    /\ pc = "idle"
    /\ \E cid \in IdArgs(Ids), w \in BOOLEAN, n \in {0, MaxAttempts} :
        /\ arg_id' = cid
        /\ wait' = w
        /\ interval' = 1
        /\ max_attempts' = n
        /\ IF ~url_call_binds({"page_size", "filters"}) THEN
               \* lines 823, 831, 838: _url has no parameter named `filters`
               /\ fetches' = 0
               /\ seen' = <<>>
               /\ sent' = <<>>
               /\ post_response' = PyNone
               /\ pc' = "idle"
               /\ result' = Raise("TypeError")
           ELSE
               \* one GET, then _wait or the GET's payload
               \E r \in Answers(ActionRunDicts) :
                   /\ fetches' = 1
                   /\ seen' = <<Observed(r)>>
                   /\ sent' = <<Request("GET", r)>>
                   /\ post_response' = IF hook_raises(r) THEN PyNone ELSE r.body
                   /\ pc' = IF ~hook_raises(r) /\ w THEN "fetch" ELSE "idle"
                   /\ result' =
                          IF hook_raises(r) THEN Raise("HTTPError")
                          ELSE IF w THEN NoResult
                          ELSE Return(r.body)
    /\ i' = 0
    /\ count' = None
    /\ sleeps' = 0
    /\ path' = "none"
    /\ kwargs' = NoArgs
    /\ body' = NoBody
    /\ target' = NoAttribute
    /\ op' = "get_last_run_playbook_information"
    /\ UNCHANGED <<clientVars, twoVars>>

\* lines 1036-1044
get_action_results ==
    /\ pc = "idle"
    /\ \E aid \in IdArgs(ActionRunIds), w \in BOOLEAN, n \in {0, MaxAttempts},
          r \in Answers(ActionRunDicts) :
        /\ arg_id' = aid
        /\ wait' = w
        /\ interval' = 1
        /\ max_attempts' = n
        \* lines 1039-1040: one GET
        /\ fetches' = 1
        /\ seen' = <<Observed(r)>>
        /\ sent' = <<Request("GET", r)>>
        /\ target' = Attribute(IF aid = None THEN last_run_action_id ELSE aid)
        /\ post_response' = IF hook_raises(r) THEN PyNone ELSE r.body
        \* lines 1041-1044: _wait fetches again, or the GET's JSON is returned
        /\ pc' = IF ~hook_raises(r) /\ w THEN "fetch" ELSE "idle"
        /\ result' = IF hook_raises(r) THEN Raise("HTTPError")
                     ELSE IF w THEN NoResult
                     ELSE Return(r.body)
    /\ i' = 0
    /\ count' = None
    /\ sleeps' = 0
    /\ path' = "none"
    /\ kwargs' = NoArgs
    /\ body' = NoBody
    /\ op' = "get_action_results"
    /\ UNCHANGED <<clientVars, twoVars>>

\* lines 1062-1071
get_action_run_data ==
    /\ pc = "idle"
    /\ \E aid \in IdArgs(ActionRunIds), w \in BOOLEAN, n \in {0, MaxAttempts} :
        /\ arg_id' = aid
        /\ wait' = w
        /\ interval' = 1
        /\ max_attempts' = n
        /\ IF "action_id" \notin action_run_data_parameters THEN
               \* line 1062: `action_id` is a local that nothing has assigned
               /\ fetches' = 0
               /\ seen' = <<>>
               /\ sent' = <<>>
               /\ post_response' = PyNone
               /\ pc' = "idle"
               /\ result' = Raise("UnboundLocalError")
           ELSE IF ~url_call_binds({"filters"}) THEN
               \* line 1067: _url has no parameter named `filters`
               /\ fetches' = 0
               /\ seen' = <<>>
               /\ sent' = <<>>
               /\ post_response' = PyNone
               /\ pc' = "idle"
               /\ result' = Raise("TypeError")
           ELSE
               \* lines 1067-1071: one GET; `url` (line 1069) is not bound
               \E r \in Answers(ActionRunDicts) :
                   /\ fetches' = 1
                   /\ seen' = <<Observed(r)>>
                   /\ sent' = <<Request("GET", r)>>
                   /\ post_response' = IF hook_raises(r) THEN PyNone ELSE r.body
                   /\ pc' = "idle"
                   /\ result' =
                          IF hook_raises(r) THEN Raise("HTTPError")
                          ELSE IF w THEN Raise("NameError")
                          ELSE Return(r.body)
    /\ i' = 0
    /\ count' = None
    /\ sleeps' = 0
    /\ path' = "none"
    /\ kwargs' = NoArgs
    /\ body' = NoBody
    /\ target' = NoAttribute
    /\ op' = "get_action_run_data"
    /\ UNCHANGED <<clientVars, twoVars>>

\* the operations that read results, with the poller they hand over to
ResultsNext ==
    \/ get_playbook_action_results
    \/ get_last_run_playbook_information
    \/ get_action_results
    \/ get_action_run_data
    \/ wait_fetch
    \/ wait_sleep
    \/ wait_exhaust

ResultsSpec == Init /\ [][ResultsNext]_vars

\* the poller called on a client that also creates containers
PollOnClientNext ==
    \/ wait_call
    \/ wait_fetch
    \/ wait_sleep
    \/ wait_exhaust
    \/ create_container

PollOnClientSpec == Init /\ [][PollOnClientNext]_vars

\* the request builders, called one after another on one client
ClientNext ==
    \/ create_container
    \/ promote_container_to_case
    \/ add_artifact
    \/ upload_file_to_phantom
    \/ run_playbook
    \/ get_playbook_results
    \/ get_playbook_action_results
    \/ get_application_id
    \/ run_action

ClientSpec == Init /\ [][ClientNext]_vars

\* two clients, their calls interleaved in any order
TwoNext ==
    \E self \in Objects :
        \/ obj_create_container(self)
        \/ obj_run_playbook(self)

TwoSpec == Init /\ [][TwoNext]_vars

----------------------------------------------------------------------------
(* Vocabulary of the properties *)

\* a direct _wait call is in progress or was the last call
InWait == op = "_wait"

\* that call has ended
WaitEnded == op = "_wait" /\ pc = "idle"

\* every GET of the call showed an in-progress status
AllInProgress == \A j \in 1..Len(seen) : seen[j] \in InProgressStatuses

\* max_attempts GETs were made and every one showed an in-progress status
Exhausted == AllInProgress /\ Len(seen) = max_attempts

\* the last GET showed a status string outside both lists
LastUnrecognized ==
    /\ seen # <<>>
    /\ Last(seen) \in Statuses \ (TerminalStatuses \cup InProgressStatuses)

\* the fallback fields of the last payload
FallbackTruthy ==
    TruthySuccess(post_response.success) \/ TruthyInt(post_response.count)

----------------------------------------------------------------------------
(* C1: a _wait call with max_attempts = N >= 1 whose every GET shows an     *)
(* in-progress status makes exactly N GETs and then returns None (the      *)
(* timeout outcome); no _wait call ever makes more than max_attempts GETs. *)
C1_AttemptBound ==
    /\ InWait => fetches <= max_attempts
    /\ (WaitEnded /\ max_attempts >= 1 /\ AllInProgress)
           => (fetches = max_attempts /\ result = Return(PyNone))

C1_Witness ==
    /\ WaitEnded
    /\ max_attempts = MaxAttempts
    /\ AllInProgress
    /\ fetches = MaxAttempts
    /\ result = Return(PyNone)

(* C2 as claimed: whenever the last GET of a _wait call showed a status    *)
(* outside both lists, the call has failed on that GET with ValueError,    *)
(* without a sleep after it and without returning the payload.             *)
C2_UnrecognizedAlwaysFails ==
    (InWait /\ LastUnrecognized)
        => /\ pc = "idle"
           /\ result = Raise("ValueError")
           /\ sleeps = fetches - 1

(* C2 amended: a status outside both lists fails the call on that GET      *)
(* (ValueError, no sleep, no further GET) when the payload's success and   *)
(* count are both falsy; when one of them is truthy the call ends on that  *)
(* GET as well, but by returning the payload.                              *)
C2_UnrecognizedFailsUnlessFallback ==
    (InWait /\ LastUnrecognized)
        => /\ pc = "idle"
           /\ sleeps = fetches - 1
           /\ result = IF FallbackTruthy THEN Return(post_response)
                       ELSE Raise("ValueError")

C2_Witness ==
    /\ InWait
    /\ LastUnrecognized
    /\ Len(seen) >= 2
    /\ i < max_attempts
    /\ ~FallbackTruthy
    /\ result = Raise("ValueError")

(* C3: a _wait call whose max_attempts GETs all showed an in-progress      *)
(* status ends without raising and returns None; every other return of     *)
(* _wait returns the payload of the last GET, which is a JSON object and   *)
(* so differs from None.                                                   *)
C3_TimeoutDistinguishable ==
    WaitEnded
        => /\ Exhausted => result = Return(PyNone)
           /\ (result.kind = "return" /\ ~Exhausted)
                  => /\ result.value = post_response
                     /\ result.value.type = "dict"
                     /\ result.value # PyNone

C3_Witness ==
    /\ WaitEnded
    /\ Exhausted
    /\ max_attempts >= 2
    /\ post_response.success = Some(TRUE)
    /\ result = Return(PyNone)

(* C4: when the first GET of a _wait call shows a terminal status, the     *)
(* call has returned that payload after one GET and no sleep, whatever the *)
(* interval and max_attempts >= 1.                                         *)
C4_ImmediateSuccess ==
    (InWait /\ seen # <<>> /\ seen[1] \in TerminalStatuses)
        => /\ pc = "idle"
           /\ fetches = 1
           /\ sleeps = 0
           /\ post_response.status = Some(seen[1])
           /\ result = Return(post_response)

C4_Witness ==
    /\ InWait
    /\ seen = <<"open">>
    /\ interval = 1
    /\ max_attempts = MaxAttempts
    /\ post_response.success = Some(FALSE)
    /\ post_response.count = Some(0)
    /\ result = Return(post_response)

(* C5: when the first payload of a _wait call has no status, the call ends *)
(* on that GET: it returns the payload if success is truthy, or if success *)
(* is not and count is non-zero; with neither it raises ValueError and     *)
(* returns nothing.                                                        *)
C5_FallbackSignals ==
    (InWait /\ seen # <<>> /\ seen[1] = SawNoStatus)
        => /\ pc = "idle"
           /\ fetches = 1
           /\ sleeps = 0
           /\ TruthySuccess(post_response.success)
                  => result = Return(post_response)
           /\ (~TruthySuccess(post_response.success)
                 /\ TruthyInt(post_response.count))
                  => result = Return(post_response)
           /\ ~FallbackTruthy => result = Raise("ValueError")

C5_Witness ==
    /\ InWait
    /\ seen = <<SawNoStatus>>
    /\ post_response.success = Some(FALSE)
    /\ post_response.count = Some(1)
    /\ result = Return(post_response)

----------------------------------------------------------------------------
(* The three classes of a status string *)

InClass(s, c) ==
    CASE c = "terminal" -> s \in TerminalStatuses
      [] c = "in-progress" -> s \in InProgressStatuses
      [] c = "unrecognized" ->
             s \notin TerminalStatuses /\ s \notin InProgressStatuses

ClassesPartition ==
    /\ TerminalStatuses \cap InProgressStatuses = {}
    /\ \A s \in Statuses :
           Cardinality({c \in {"terminal", "in-progress", "unrecognized"} :
                            InClass(s, c)}) = 1

\* the reaction to a terminal status: the payload is returned
ReactsTerminal ==
    /\ pc = "idle"
    /\ result = Return(post_response)

\* the reaction to an in-progress status: one sleep, then the next GET while
\* attempts remain; the call ends only when none remains, by returning None
ReactsInProgress ==
    /\ pc = "sleep" \/ sleeps = fetches
    /\ pc = "sleep" => sleeps = fetches - 1
    /\ pc = "idle" => (i = max_attempts /\ result = Return(PyNone))

(* C6 as claimed: the two lists are disjoint, every status is in exactly   *)
(* one class, and the class alone decides the reaction: terminal returns   *)
(* the payload, in-progress sleeps and retries, unrecognized fails.        *)
C6_ReactionByClassAlone ==
    /\ ClassesPartition
    /\ (InWait /\ seen # <<>> /\ Last(seen) \in Statuses)
           => /\ InClass(Last(seen), "terminal") => ReactsTerminal
              /\ InClass(Last(seen), "in-progress") => ReactsInProgress
              /\ InClass(Last(seen), "unrecognized")
                     => (pc = "idle" /\ result = Raise("ValueError"))

(* C6 amended: as claimed for the classification and for the terminal and  *)
(* in-progress classes; for an unrecognized status the reaction depends on *)
(* the payload's fallback fields as well: the call fails when success and  *)
(* count are both falsy and returns the payload otherwise.                 *)
C6_ReactionByClassAndFallback ==
    /\ ClassesPartition
    /\ (InWait /\ seen # <<>> /\ Last(seen) \in Statuses)
           => /\ InClass(Last(seen), "terminal") => ReactsTerminal
              /\ InClass(Last(seen), "in-progress") => ReactsInProgress
              /\ InClass(Last(seen), "unrecognized")
                     => /\ pc = "idle"
                        /\ result = IF FallbackTruthy
                                    THEN Return(post_response)
                                    ELSE Raise("ValueError")

C6_Witness ==
    /\ InWait
    /\ Len(seen) = 2
    /\ seen[1] = "pending"
    /\ seen[2] = "bogus"
    /\ post_response.count = Some(1)
    /\ result = Return(post_response)

(* C7: every _wait call ends (by a return, the timeout or a raised error), *)
(* whatever the platform answers, and makes at most max_attempts GETs.     *)
C7_BoundedTermination ==
    /\ [](InWait => (fetches <= max_attempts /\ sleeps <= max_attempts))
    /\ (pc # "idle") ~> (pc = "idle")

C7_Witness ==
    /\ WaitEnded
    /\ fetches = MaxAttempts
    /\ max_attempts = MaxAttempts
    /\ seen[1] = "running"
    /\ Last(seen) = SawNull
    /\ result = Raise("AttributeError")

(* C8: when a GET of a _wait call gets a non-success HTTP status, the call *)
(* has ended with the hook's HTTPError: no sleep and no GET follow it,     *)
(* also when attempts remain.                                              *)
C8_HttpErrorNotRetried ==
    (InWait /\ seen # <<>> /\ Last(seen) = SawHttpError)
        => /\ pc = "idle"
           /\ result = Raise("HTTPError")
           /\ sleeps = fetches - 1

C8_Witness ==
    /\ InWait
    /\ Len(seen) = 2
    /\ Last(seen) = SawHttpError
    /\ i < max_attempts
    /\ result = Raise("HTTPError")

----------------------------------------------------------------------------
(* C9 as claimed: a get_playbook_action_results call with an explicit      *)
(* playbook_id, wait=True and max_attempts >= 1 fetches the resource at    *)
(* least once, and when its GETs showed k in-progress statuses and then a  *)
(* terminal one (0 <= k < max_attempts) it has returned the payload of GET *)
(* k+1 after exactly k+1 GETs.                                             *)
C9_WaitingFetchCount ==
    (/\ op = "get_playbook_action_results"
     /\ pc = "idle"
     /\ wait
     /\ arg_id # None
     /\ max_attempts >= 1)
        => /\ fetches >= 1
           /\ \A k \in 0..(max_attempts - 1) :
                  (/\ Len(seen) = k + 1
                   /\ \A j \in 1..k : seen[j] \in InProgressStatuses
                   /\ seen[k + 1] \in TerminalStatuses)
                      => (fetches = k + 1 /\ result = Return(post_response))

----------------------------------------------------------------------------
\* the container identifiers the client object holds, oldest first
ContainerHistory == IF container_id_set THEN <<container_id>> ELSE <<>>

\* the step is a create_container call that returns
CreateReturns ==
    /\ pc = "idle"
    /\ op' = "create_container"
    /\ result'.kind = "return"

(* C10 as claimed: every create_container call that returns appends the   *)
(* response's id to the identifiers the client holds.                      *)
C10_ContainerIdAppended ==
    [][CreateReturns
           => ContainerHistory' = Append(ContainerHistory, result'.value.id)]_vars

(* C10 amended: a create_container call that returns hands back the        *)
(* server's JSON response unchanged and records the response's id as the   *)
(* client's one current container id, replacing the id recorded before; so *)
(* after n such calls the client holds the id of the last call only.       *)
C10_ContainerIdReplaced ==
    (op = "create_container" /\ result.kind = "return")
        => /\ result.value = post_response
           /\ post_response \in ContainerDicts
           /\ container_id_set
           /\ container_id = result.value.id
           /\ ContainerHistory = <<result.value.id>>

C10_Witness ==
    /\ op = "create_container"
    /\ result = Return([type |-> "dict", id |-> Some(42)])
    /\ container_id = Some(42)
    /\ Len(playbook_run_id) = 1

----------------------------------------------------------------------------
(* Vocabulary of the request builders' properties *)

\* s is an initial segment of t
IsPrefix(s, t) == Len(s) <= Len(t) /\ SubSeq(t, 1, Len(s)) = s

\* how many HTTP requests the call has sent
Requests == Len(sent)

\* the call returned the JSON of a response, not None
ReturnedPayload == result.kind = "return" /\ result.value # PyNone

FailedPost == [verb |-> "POST", ok |-> FALSE]

OkPost == [verb |-> "POST", ok |-> TRUE]

----------------------------------------------------------------------------
(* C11: the artifact-id, file-id and playbook-run-id histories are         *)
(* append-only: every call leaves each of them an extension of its earlier *)
(* value, and a call of add_artifact, upload_file_to_phantom or            *)
(* run_playbook that returns the response makes its history exactly one    *)
(* element longer.                                                         *)
C11_HistoriesAppendOnly ==
    [][ /\ IsPrefix(artifact_id, artifact_id')
        /\ IsPrefix(file_id, file_id')
        /\ IsPrefix(playbook_run_id, playbook_run_id')
        /\ (op' = "add_artifact" /\ result'.kind = "return")
               => Len(artifact_id') = Len(artifact_id) + 1
        /\ (op' = "upload_file_to_phantom" /\ result'.kind = "return"
                /\ result'.value # PyNone)
               => Len(file_id') = Len(file_id) + 1
        /\ (op' = "run_playbook" /\ result'.kind = "return")
               => Len(playbook_run_id') = Len(playbook_run_id) + 1
      ]_vars

\* a second run_playbook has returned: the history holds two identifiers
C11_Witness ==
    /\ op = "run_playbook"
    /\ result.kind = "return"
    /\ Len(playbook_run_id) = 2

----------------------------------------------------------------------------
(* C12: a call that takes an optional identifier addresses, when the       *)
(* identifier is omitted, the most recent one (the recorded container id,  *)
(* the last element of the playbook-run history), and when an identifier   *)
(* is passed, 0 included, exactly that one, without reading the recorded   *)
(* state.                                                                  *)
C12_ExplicitIdBypassesHistory ==
    op \in {"run_playbook", "promote_container_to_case", "get_playbook_results"}
    => /\ (arg_id # None /\ target # NoAttribute) => target = Attribute(arg_id)
       /\ arg_id # None => result # Raise("IndexError")
       /\ arg_id # None => ~(sent = <<>> /\ result = Raise("AttributeError"))
       /\ (arg_id = None /\ target # NoAttribute)
              => target = Attribute(IF op = "get_playbook_results"
                                    THEN Last(playbook_run_id)
                                    ELSE container_id)

----------------------------------------------------------------------------
----------------------------------------------------------------------------
(* C14: once create_container has succeeded, an add_artifact or            *)
(* run_playbook call whose request gets a non-success status raises the    *)
(* HTTP error, leaves the container id and every history as they were, and *)
(* sends nothing after the failed POST.                                    *)
C14_FailedWriteChangesNothing ==
    [][ ( /\ container_id_set
          /\ op' \in {"add_artifact", "run_playbook"}
          /\ sent' # <<>>
          /\ ~Last(sent').ok )
        => /\ result' = Raise("HTTPError")
           /\ clientVars' = clientVars
           /\ sent' = <<FailedPost>>
      ]_vars

\* a run_playbook has failed on a client that holds a container and a run
C14_Witness ==
    /\ container_id_set
    /\ container_id = Some(42)
    /\ playbook_run_id # <<>>
    /\ op = "run_playbook"
    /\ sent = <<FailedPost>>
    /\ result = Raise("HTTPError")

----------------------------------------------------------------------------
(* C15: no step of a _wait call, whatever the call's outcome, changes a    *)
(* field of the client object, and none changes the arguments the call was *)
(* given.                                                                  *)
C15_PollingLeavesClientAlone ==
    [][ /\ (pc # "idle" \/ op' = "_wait") => clientVars' = clientVars
        /\ pc # "idle" => argVars' = argVars
      ]_vars

\* a _wait call has timed out on a client that holds a container
C15_Witness ==
    /\ WaitEnded
    /\ result = Return(PyNone)
    /\ fetches >= 2
    /\ interval = 1
    /\ container_id_set
    /\ container_id # None

----------------------------------------------------------------------------
(* C16, as claimed: a _wait call that has ended after f >= 1 GETs has      *)
(* slept f - 1 times, also when it ended because the attempts ran out.     *)
C16_NoSleepAfterFinalFetch ==
    (WaitEnded /\ fetches >= 1) => sleeps = fetches - 1

(* C16, amended: no sleep precedes the first GET and exactly one sleep     *)
(* separates two consecutive GETs; a call that ends by a return or an      *)
(* error on its f-th GET has slept f - 1 times, and a call that ends       *)
(* because the attempts ran out has slept once more, after its last GET:   *)
(* max_attempts times in all.                                              *)
C16_SleepAfterEachPendingFetch ==
    InWait
    => /\ pc = "fetch" => sleeps = fetches
       /\ pc = "sleep" => sleeps = fetches - 1
       /\ pc = "idle"
              => sleeps = (IF seen # <<>> /\ Last(seen) \notin InProgressStatuses
                           THEN fetches - 1 ELSE fetches)

\* the attempts have run out after two GETs and two sleeps
C16_Witness ==
    /\ WaitEnded
    /\ Exhausted
    /\ fetches = 2
    /\ sleeps = 2

----------------------------------------------------------------------------
(* C17: of two client objects whose calls interleave in any order, a call  *)
(* on one leaves every attribute of the other as it was, and what a        *)
(* run_playbook call without a container id does depends on the            *)
(* create_container calls made on its own object alone: it stops before    *)
(* its request exactly when none has succeeded, and otherwise addresses    *)
(* the container its own object created last.                              *)
C17_ObjectsIndependent ==
    [][ \A o \in Objects : caller' = o =>
          /\ \A p \in Objects \ {o}, a \in Attributes :
                 objects'[attribute_cell(p, a)] = objects[attribute_cell(p, a)]
          /\ (op' = "run_playbook" /\ ~TruthyInt(arg_id'))
                 => /\ sent' = <<>> <=> created[o] = NoAttribute
                    /\ sent' # <<>> => target' = created[o]
      ]_vars

\* B has started a playbook in its own container after A created another
\* container and started two playbooks
C17_Witness ==
    /\ caller = "B"
    /\ op = "run_playbook"
    /\ arg_id = None
    /\ result.kind = "return"
    /\ created["A"] # NoAttribute
    /\ created["B"] # NoAttribute
    /\ created["A"] # created["B"]
    /\ Len(objects[attribute_cell("A", "_playbook_run_id")]) = 2
    /\ Len(objects[attribute_cell("B", "_playbook_run_id")]) = 1

----------------------------------------------------------------------------
----------------------------------------------------------------------------
(* C19: a create_container or run_playbook call whose response carries no  *)
(* identifier ends, for the caller of the wrappers in test_example.py, in  *)
(* the container or playbook exception, and no history holds an entry      *)
(* that is not an identifier.                                              *)
C19_NoIdentifierIsDomainError ==
    /\ ( /\ op = "create_container"
         /\ sent = <<OkPost>>
         /\ post_response.type = "dict"
         /\ post_response.id = None )
       => test_wrapper(result) = Raise("containerException")
    /\ ( /\ op = "run_playbook"
         /\ sent = <<OkPost>>
         /\ post_response.type = "dict"
         /\ post_response.playbook_run_id = None )
       => test_wrapper(result) = Raise("playbookException")
    /\ \A k \in 1..Len(playbook_run_id) : playbook_run_id[k] # None

----------------------------------------------------------------------------
(* C20: get_playbook_results called with wait=True and max_attempts >= 2,  *)
(* whose first GET shows an in-progress status, sends a second GET, and    *)
(* does not return a payload whose status is in progress.                  *)
C20_WaitsForTerminalStatus ==
    ( /\ op = "get_playbook_results"
      /\ wait
      /\ max_attempts >= 2
      /\ seen # <<>>
      /\ seen[1] \in InProgressStatuses )
    => /\ fetches >= 2
       /\ ~( /\ result.kind = "return"
             /\ result.value.type = "dict"
             /\ result.value.status # None
             /\ result.value.status[1] \in InProgressStatuses )


-----------------------------------------------------------------------------
(* C21, as claimed: every public accessor yields the history of its own     *)
(* kind: playbook_run_id the run ids recorded by run_playbook,              *)
(* playbook_name the playbook names, artifact_id the artifact ids and       *)
(* file_id the file ids, each in call order.                                *)
C21_AccessorsMatchHistory ==
    /\ playbook_run_id_property = playbook_run_id
    /\ playbook_name_property = playbook_name
    /\ artifact_id_property = artifact_id
    /\ file_id_property = file_id

-----------------------------------------------------------------------------
(* C22: the body of the request a run_playbook call sends is determined by *)
(* the call's arguments and the current container id alone: it is the       *)
(* encoding of exactly container_id (the given id, or the current one when  *)
(* none is given), playbook_id, scope and run, whatever the histories hold  *)
(* and however many calls went before.                                      *)
C22_BodyDeterminedByArguments ==
    (op = "run_playbook" /\ sent # <<>>) =>
        body = [type |-> "str",
                json |-> [type |-> "str",
                          json |-> [container_id |->
                                        IF arg_id # None /\ arg_id[1] # 0
                                        THEN arg_id ELSE container_id,
                                    playbook_id |-> kwargs.playbook_name,
                                    scope |-> kwargs.scope,
                                    run |-> kwargs.run]]]

\* the second run on a client, with the container id left out
C22_Witness ==
    /\ op = "run_playbook"
    /\ result.kind = "return"
    /\ arg_id = None
    /\ kwargs = [playbook_name |-> "pb", scope |-> "all", run |-> FALSE]
    /\ Len(playbook_run_id) = 2
    /\ container_id = Some(42)
    /\ body.json.json.container_id = Some(42)

-----------------------------------------------------------------------------
(* C23: the status decides before the fallback fields do.  A GET of _wait   *)
(* answered with an in-progress status leads to the sleep and returns       *)
(* nothing, whatever `success` and `count` hold; one answered with a        *)
(* terminal status ends the call with that payload, whatever they hold; the *)
(* ValueError, which `success` and `count` can prevent, is raised only for  *)
(* a payload whose status is neither.                                       *)
C23_StatusTakesPrecedence ==
    [][ (InWait /\ fetches' = fetches + 1 /\ Last(sent').ok
           /\ post_response'.type = "dict")
        => /\ Last(seen') \in InProgressStatuses
                => (pc' = "sleep" /\ result' = NoResult)
           /\ Last(seen') \in TerminalStatuses
                => (pc' = "idle" /\ result' = Return(post_response'))
           /\ result'.exc = "ValueError"
                => /\ Last(seen') \notin TerminalStatuses \cup InProgressStatuses
                   /\ ~TruthySuccess(post_response'.success)
                   /\ ~TruthyInt(post_response'.count)
      ]_vars

\* a running payload with success true and count 1 is about to be retried
C23_Witness ==
    /\ InWait
    /\ pc = "sleep"
    /\ post_response.type = "dict"
    /\ post_response.status = Some("running")
    /\ TruthySuccess(post_response.success)
    /\ post_response.count = Some(1)

-----------------------------------------------------------------------------
(* C25: the payload's `count`, which overwrites the loop variable on every  *)
(* iteration, does not steer the loop.  While every answer of a _wait call  *)
(* has been in progress, the call has made one GET per iteration and no     *)
(* more than max_attempts; the variable holds the last payload's count; and *)
(* when the call has ended it has made exactly max_attempts GETs, whichever *)
(* counts the payloads carried.                                             *)
C25_FetchCountIgnoresPayloadCount ==
    (InWait /\ AllInProgress) =>
        /\ fetches = i
        /\ fetches <= max_attempts
        /\ seen # <<>> => count = post_response.count
        /\ pc = "idle" => (fetches = max_attempts /\ result = Return(PyNone))

\* a resource that kept answering with a count above max_attempts
C25_Witness ==
    /\ WaitEnded
    /\ AllInProgress
    /\ max_attempts = MaxAttempts
    /\ fetches = MaxAttempts
    /\ count = Some(MaxAttempts + 2)

-----------------------------------------------------------------------------
(* C26, as claimed: delete_container changes no field of the client, and    *)
(* after it has deleted the current container, a following add_artifact,    *)
(* run_playbook or update_container_status that omits container_id is       *)
(* addressed to the deleted container's id.                                 *)
C26_DeletedContainerStillAddressed ==
    [][ /\ op' = "delete_container" => clientVars' = clientVars
        /\ ( /\ op = "delete_container"
             /\ result.kind = "return"
             /\ target = Attribute(container_id)
             /\ op' \in {"add_artifact", "run_playbook",
                         "update_container_status"}
             /\ arg_id' = None )
           => target' = target
      ]_vars

-----------------------------------------------------------------------------
(* C27: a call that leaves out its identifier on a client that has nothing  *)
(* recorded to fall back on fails before any request.                       *)
(* get_playbook_results, get_playbook_action_results and                    *)
(* alter_playbook_active_state called without playbook_id while the         *)
(* playbook-run history is empty raise IndexError; add_artifact,            *)
(* run_playbook and delete_container called without container_id on a       *)
(* client that never created a container raise AttributeError; in both      *)
(* cases no request is sent and no field of the client changes.             *)
C27_DefaultsFailBeforeRequest ==
    [][ /\ ( /\ pc = "idle"
             /\ op' \in {"get_playbook_results", "get_playbook_action_results",
                         "alter_playbook_active_state"}
             /\ arg_id' = None
             /\ playbook_run_id = <<>> )
           => /\ result' = Raise("IndexError")
              /\ sent' = <<>>
              /\ clientVars' = clientVars
        /\ ( /\ pc = "idle"
             /\ op' \in {"add_artifact", "run_playbook", "delete_container"}
             /\ arg_id' = None
             /\ ~container_id_set )
           => /\ result' = Raise("AttributeError")
              /\ sent' = <<>>
              /\ clientVars' = clientVars
      ]_vars

\* delete_container() on a client that has recorded nothing
C27_Witness ==
    /\ op = "delete_container"
    /\ arg_id = None
    /\ ~container_id_set
    /\ playbook_run_id = <<>>
    /\ result = Raise("AttributeError")
    /\ sent = <<>>

-----------------------------------------------------------------------------
(* C24, as claimed: get_playbook_action_results,                            *)
(* get_last_run_playbook_information, get_action_results and                *)
(* get_action_run_data called with wait=False make exactly one GET, never   *)
(* sleep, never raise ValueError, and return the GET's payload whatever its *)
(* status; called with wait=True they return what _wait produced: nothing   *)
(* when the attempts ran out, else the payload of _wait's last GET.         *)
(* (get_playbook_action_results is given its playbook_id: without one it    *)
(* has to find a recorded run first.)                                       *)
C24_SingleFetchWithoutWait ==
    ( /\ op \in {"get_playbook_action_results",
                 "get_last_run_playbook_information",
                 "get_action_results", "get_action_run_data"}
      /\ op = "get_playbook_action_results" => arg_id # None
      /\ pc = "idle" )
    => /\ ~wait => /\ fetches = 1
                   /\ sleeps = 0
                   /\ result # Raise("ValueError")
                   /\ Last(sent).ok => result = Return(post_response)
       /\ (wait /\ result.kind = "return")
              => \/ i = max_attempts /\ result = Return(PyNone)
                 \/ i >= 1 /\ fetches = i + 1 /\ result = Return(post_response)
====
